---- MODULE Spec2Model ----
(***************************************************************************)
(* A model of subversion/libsvn_subr/svn_temp_serializer.c: the temporary  *)
(* structure serializer (context, structure stack, pointer patching,       *)
(* alignment) and its two deserialization accessors, alone and run by      *)
(* several processes on one shared blob; and of the status walk of         *)
(* subversion/libsvn_wc/revision_status.c, which collects the revision     *)
(* range of a working copy.                                                *)
(*                                                                         *)
(* Memory is modelled byte by byte.  The serialization buffer is the       *)
(* allocated block of the svn_stringbuf_t (data) together with its len;    *)
(* the caller's structures live in a separate source memory (SrcMem) at    *)
(* addresses starting at SrcBase.  apr_size_t and pointers are PtrSize     *)
(* bytes wide, stored little-endian.                                       *)
(***************************************************************************)
EXTENDS Integers, Sequences, FiniteSets, TLC

(***************************************************************************)
(* Platform constants and model bounds                                     *)
(***************************************************************************)

\* sizeof(apr_size_t) = sizeof(void *): the width of a patched slot
\* (an LP64 build)
PtrSize == 8

\* the boundary APR_ALIGN_DEFAULT rounds up to
AlignDefault == 8

\* the longest buffer (buffer->len) the model lets the serializer build
MaxBufLen == 64

\* the deepest structure stack the model lets the caller build
MaxDepth == 3

\* the number of calls the model lets the caller make on one context,
\* svn_temp_serializer__init included
MaxCalls == 5

\* the address of the first byte of the caller's structures
SrcBase == 1000

\* the number of accessor calls the model lets the processes sharing a blob
\* make, all processes together
MaxAccesses == 3

\* the number of nodes of the largest working copy the status walk visits
MaxNodes == 3

\* the revision number that stands for "no revision" (svn_types.h)
SVN_INVALID_REVNUM == -1

\* bytes of the allocated block that the model tracks: the serialized data
\* plus the spare capacity a slot write that starts before len can reach
Cap == MaxBufLen + PtrSize

\* the value of a byte of the block that nothing has written yet
Indet == -1

NULL == 0

(***************************************************************************)
(* Integers as PtrSize little-endian bytes                                 *)
(***************************************************************************)

RECURSIVE BytesOf(_, _)
BytesOf(n, k) ==
  IF k = 0 THEN <<>> ELSE <<n % 256>> \o BytesOf(n \div 256, k - 1)

\* the object representation of the apr_size_t (or pointer) n
ToBytes(n) == BytesOf(n, PtrSize)

RECURSIVE FromBytesFrom(_, _)
FromBytesFrom(b, i) ==
  IF i > Len(b) THEN 0 ELSE b[i] + 256 * FromBytesFrom(b, i + 1)

\* the apr_size_t whose object representation is b
FromBytes(b) == FromBytesFrom(b, 1)

IsZero(b) == \A i \in 1..Len(b) : b[i] = 0

RECURSIVE AddCarry(_, _, _, _)
AddCarry(a, b, i, carry) ==
  IF i > PtrSize THEN <<>>
  ELSE LET s == a[i] + b[i] + carry
       IN  <<s % 256>> \o AddCarry(a, b, i + 1, s \div 256)

\* a + b in pointer arithmetic: modulo 2^(8 * PtrSize)
AddBytes(a, b) == AddCarry(a, b, 1, 0)

\* the carry out of a + b: does the sum pass 2^(8 * PtrSize)?
RECURSIVE CarryOut(_, _, _, _)
CarryOut(a, b, i, carry) ==
  IF i > PtrSize THEN carry
  ELSE CarryOut(a, b, i + 1, (a[i] + b[i] + carry) \div 256)

Wraps(a, b) == CarryOut(a, b, 1, 0) = 1

\* a > b for two addresses, compared from the most significant byte down
RECURSIVE GreaterFrom(_, _, _)
GreaterFrom(a, b, i) ==
  IF i = 0 THEN FALSE
  ELSE IF a[i] # b[i] THEN a[i] > b[i]
  ELSE GreaterFrom(a, b, i - 1)

GreaterBytes(a, b) == GreaterFrom(a, b, PtrSize)

(***************************************************************************)
(* The caller's structures (the source memory)                             *)
(*   Parent { int x; char *name; Child *child; Child *twin; }   32 bytes   *)
(*   Child  { char *name; void *nul; }                          16 bytes   *)
(* with x = 1 (followed by four bytes of padding, zero here), both names   *)
(* the one string "ab", child = twin = the one Child, and nul = NULL.      *)
(***************************************************************************)

AddrParent == SrcBase
AddrChild  == SrcBase + 32
AddrStr    == SrcBase + 48

\* the addresses of the pointer fields
ParentName  == AddrParent + 8
ParentChild == AddrParent + 16
ParentTwin  == AddrParent + 24
ChildName   == AddrChild
ChildNul    == AddrChild + 8

SrcMem ==
     ToBytes(1) \o ToBytes(AddrStr) \o ToBytes(AddrChild) \o ToBytes(AddrChild)
  \o ToBytes(AddrStr) \o ToBytes(NULL)
  \o <<97, 98, 0>>

\* the byte at address a of the source memory
Peek(a) == SrcMem[a - SrcBase + 1]

\* the n bytes at address a
PeekBytes(a, n) == [i \in 1..n |-> Peek(a + i - 1)]

\* *source_pointer: the pointer stored at address a
Deref(a) == FromBytes(PeekBytes(a, PtrSize))

RECURSIVE strlen(_)
strlen(a) == IF Peek(a) = 0 THEN 0 ELSE 1 + strlen(a + 1)

\* sizeof the object at address a
SizeOf(a) ==
  CASE a = AddrParent -> 32
    [] a = AddrChild  -> 16
    [] OTHER          -> 0

\* the fields a caller passes to push: those that reference structures
StructFields == {ParentChild, ParentTwin, ChildNul}

\* the fields a caller passes to add_string: those that reference strings
StringFields == {ParentName, ChildName, ChildNul}

\* the fields a caller passes to set_null
AllFields == StructFields \cup StringFields

\* the struct_size arguments a caller passes for the object at address a:
\* its sizeof, or 0
StructSizes(a) == {0, SizeOf(a)}

(***************************************************************************)
(* State                                                                   *)
(***************************************************************************)

VARIABLES
  pc,        \* "start": no context yet; "run": context live; "abort": an assert failed
  buffer,    \* context->buffer: [data: the allocated block, len: buffer->len]
  source,    \* context->source: the structure stack, top last
  calls,     \* history: the number of calls made so far
  sizes,     \* history: the struct_size each stack entry was pushed with
  last,      \* history: the last call, its arguments and what it did
  patches,   \* history: every slot write made so far
  images,    \* history: every structure image appended so far
  counts     \* history: whether a root was given, the pushes and pops returned

\* a finished blob shared by several processes
VARIABLES
  base,      \* the address the blob is placed at (the accessors' buffer)
  mem,       \* the pointer slots of the blob: slot |-> the PtrSize bytes in it
  proc,      \* each process: the call it is in (kind, slot), where it is in
             \* it (at), the value it last loaded or stored (tmp), the value
             \* its last call returned (ret)
  orig,      \* history: the slots as the serializer left them
  stores,    \* history: slot |-> the number of stores resolve made to it
  resolves,  \* history: slot |-> the number of calls of resolve made on it
  accesses   \* history: the number of calls made so far

serializerVars ==
  <<pc, buffer, source, calls, sizes, last, patches, images, counts>>

accessVars == <<base, mem, proc, orig, stores, resolves, accesses>>

\* a working copy and the status walk over it
VARIABLES
  walk,      \* "none": no walk; "walking": svn_wc_revision_status is in the walk
  wc,        \* the nodes of the working copy, as svn_wc__db_read_info reports
             \* them; node 1 is the one at wc_path
  pending,   \* the nodes the walker has yet to pass to analyze_status
  sb,        \* the walking baton: result (min_rev, max_rev, modified), wc_url
  order      \* history: the nodes visited so far, in order

walkVars == <<walk, wc, pending, sb, order>>

vars == <<serializerVars, accessVars, walkVars>>

\* what the pool decides during one call, which the source does not show:
\* whether svn_stringbuf_ensure (ensure), or svn_stringbuf_appendbytes
\* (append), finds the block too small and replaces it
Pools == [ensure : BOOLEAN, append : BOOLEAN]

\* a block with room for everything the call adds
RoomyPool == [ensure |-> FALSE, append |-> FALSE]

\* the context as the functions below take and return it
Context ==
  [buffer |-> buffer, source |-> source, abort |-> FALSE, pool |-> RoomyPool]

Depth(c) == Len(c.source)
Top(c) == c.source[Len(c.source)]

\* the PtrSize bytes of block d at offset off
ReadSlot(d, off) == [i \in 1..PtrSize |-> d[off + i]]

\* block d with bytes b stored at offset off
WriteBytes(d, off, b) ==
  [i \in 1..Len(d) |-> IF i > off /\ i <= off + Len(b) THEN b[i - off] ELSE d[i]]

(***************************************************************************)
(* The serializer's functions.  Each takes the context and returns the     *)
(* context it leaves; abort = TRUE says an assert failed inside it (the     *)
(* process is gone, with whatever the function had done before the assert). *)
(***************************************************************************)

\* APR_ALIGN_DEFAULT(n): n rounded up to the next multiple of AlignDefault
APR_ALIGN_DEFAULT(n) ==
  ((n + AlignDefault - 1) \div AlignDefault) * AlignDefault

\* svn_stringbuf_ensure(b, minimum_size): when the block is too small
\* (moved) it is replaced by a fresh one that receives the first len + 1
\* bytes; the other bytes of the fresh block are what nothing has written
svn_stringbuf_ensure(b, minimum_size, moved) ==
  IF moved /\ minimum_size > b.len + 1
  THEN [b EXCEPT !.data = [i \in 1..Len(@) |->
                            IF i <= b.len + 1 THEN @[i] ELSE Indet]]
  ELSE b

\* svn_stringbuf_appendbytes: room made for the bytes, the bytes stored at
\* data + len, len advanced
svn_stringbuf_appendbytes(b, bytes, moved) ==
  LET b1 == svn_stringbuf_ensure(b, b.len + Len(bytes) + 1, moved)
  IN  [data |-> WriteBytes(b1.data, b1.len, bytes), len |-> b1.len + Len(bytes)]

\* align_buffer_end as it would be if it grew the block and left len alone
align_buffer_end_len_kept(c) == c

\* room is made for the padding and len moves: the bytes of the padding are
\* whatever the block, kept or replaced, holds there
align_buffer_end(c) ==
  LET current_len == c.buffer.len
      aligned_len == APR_ALIGN_DEFAULT(current_len)
  IN  IF aligned_len # current_len
      THEN [c EXCEPT !.buffer =
              [svn_stringbuf_ensure(@, aligned_len + 1, c.pool.ensure)
                 EXCEPT !.len = aligned_len]]
      ELSE c

\* init as it would be if it took the root's target_offset from the buffer
\* after copying the structure in
svn_temp_serializer__init_offset_after_copy(source_struct, struct_size) ==
  LET empty == [data |-> [i \in 1..Cap |-> Indet], len |-> 0]
      copied == svn_stringbuf_appendbytes(
                  empty, PeekBytes(source_struct, struct_size), FALSE)
  IN  IF source_struct # NULL
      THEN [buffer |-> copied,
            source |-> <<[source_struct |-> source_struct,
                          target_offset |-> copied.len]>>,
            abort  |-> FALSE, pool |-> RoomyPool]
      ELSE [buffer |-> empty, source |-> <<>>, abort |-> FALSE,
            pool |-> RoomyPool]

\* the context svn_temp_serializer__init returns
svn_temp_serializer__init(source_struct, struct_size) ==
  LET empty == [data |-> [i \in 1..Cap |-> Indet], len |-> 0]
  IN  IF source_struct # NULL
      THEN [buffer |-> svn_stringbuf_appendbytes(
                         empty, PeekBytes(source_struct, struct_size), FALSE),
            source |-> <<[source_struct |-> source_struct,
                          target_offset |-> 0]>>,
            abort  |-> FALSE, pool |-> RoomyPool]
      ELSE [buffer |-> empty, source |-> <<>>, abort |-> FALSE,
            pool |-> RoomyPool]

\* PtrOffset as it would be with the structure's target_offset left out
PtrOffsetInStruct(c, p) == p - Top(c).source_struct

\* (const char *)p - (const char *)source_struct + target_offset, computed
\* in apr_size_t.  A negative result stands for the wrapped value
\* 2^(8 * PtrSize) + result, which is larger than every buffer length.
PtrOffset(c, p) ==
  (p - Top(c).source_struct) + Top(c).target_offset

\* WithinData as it would be with the comparison off by one (>= for >)
WithinDataOrAtEnd(c, off) == off >= 0 /\ c.buffer.len >= off

\* assert(context->buffer->len > ptr_offset), ptr_offset as PtrOffset gives it
WithinData(c, off) == off >= 0 /\ c.buffer.len > off

\* EndPointerValue as it would be with the offset taken from the blob's start
EndPointerValueFromBlobStart(c, source_pointer) ==
  IF Deref(source_pointer) = NULL
  THEN 0
  ELSE c.buffer.len

\* the value store_current_end_pointer puts into the slot
EndPointerValue(c, source_pointer) ==
  IF Deref(source_pointer) = NULL
  THEN 0
  ELSE c.buffer.len - Top(c).target_offset

\* store_current_end_pointer as it would be if it required a parent
\* structure (assert for the early return), as set_null does
store_current_end_pointer_asserting(c, source_pointer) ==
  IF c.source = <<>>
  THEN [c EXCEPT !.abort = TRUE]
  ELSE LET ptr_offset == PtrOffset(c, source_pointer)
       IN  IF ~WithinData(c, ptr_offset)
           THEN [c EXCEPT !.abort = TRUE]
           ELSE [c EXCEPT !.buffer.data =
                   WriteBytes(@, ptr_offset,
                              ToBytes(EndPointerValue(c, source_pointer)))]

store_current_end_pointer(c, source_pointer) ==
  IF c.source = <<>>
  THEN c
  ELSE LET ptr_offset == PtrOffset(c, source_pointer)
       IN  IF ~WithinData(c, ptr_offset)
           THEN [c EXCEPT !.abort = TRUE]
           ELSE [c EXCEPT !.buffer.data =
                   WriteBytes(@, ptr_offset,
                              ToBytes(EndPointerValue(c, source_pointer)))]

\* the stack entry push creates, once the slot is patched
NewEntry(c, source_struct) ==
  [source_struct |-> Deref(source_struct), target_offset |-> c.buffer.len]

\* push as it would be if it shared a structure already in the buffer: when
\* the bytes to append already stand at an aligned offset, nothing is
\* appended
svn_temp_serializer__push_sharing(c, source_struct, struct_size) ==
  LET c1 == IF Deref(source_struct) # NULL THEN align_buffer_end(c) ELSE c
      c2 == store_current_end_pointer(c1, source_struct)
      c3 == [c2 EXCEPT !.source = Append(@, NewEntry(c2, source_struct))]
      bytes == PeekBytes(Deref(source_struct), struct_size)
      shared == \E o \in 0..c2.buffer.len :
                  /\ o + struct_size <= c2.buffer.len
                  /\ o = APR_ALIGN_DEFAULT(o)
                  /\ [i \in 1..struct_size |-> c2.buffer.data[o + i]] = bytes
  IN  IF c2.abort THEN c2
      ELSE IF Deref(source_struct) # NULL /\ ~shared
      THEN [c3 EXCEPT !.buffer = svn_stringbuf_appendbytes(@, bytes, c.pool.append)]
      ELSE c3

\* push as it would be if it created a stack entry for a non-null child
\* only
svn_temp_serializer__push_skipping_null(c, source_struct, struct_size) ==
  LET c1 == IF Deref(source_struct) # NULL THEN align_buffer_end(c) ELSE c
      c2 == store_current_end_pointer(c1, source_struct)
      c3 == [c2 EXCEPT !.source = Append(@, NewEntry(c2, source_struct))]
  IN  IF c2.abort THEN c2
      ELSE IF Deref(source_struct) # NULL
      THEN [c3 EXCEPT !.buffer = svn_stringbuf_appendbytes(
                        @, PeekBytes(Deref(source_struct), struct_size), c.pool.append)]
      ELSE c2

\* push as it would be if it padded the buffer for a null child too
svn_temp_serializer__push_padding_always(c, source_struct, struct_size) ==
  LET c1 == align_buffer_end(c)
      c2 == store_current_end_pointer(c1, source_struct)
      c3 == [c2 EXCEPT !.source = Append(@, NewEntry(c2, source_struct))]
  IN  IF c2.abort THEN c2
      ELSE IF Deref(source_struct) # NULL
      THEN [c3 EXCEPT !.buffer = svn_stringbuf_appendbytes(
                        @, PeekBytes(Deref(source_struct), struct_size), c.pool.append)]
      ELSE c3

\* push as it would be if it appended the bytes at source_struct (the
\* field) instead of those at *source_struct (the structure)
svn_temp_serializer__push_copying_field(c, source_struct, struct_size) ==
  LET c1 == IF Deref(source_struct) # NULL THEN align_buffer_end(c) ELSE c
      c2 == store_current_end_pointer(c1, source_struct)
      c3 == [c2 EXCEPT !.source = Append(@, NewEntry(c2, source_struct))]
  IN  IF c2.abort THEN c2
      ELSE IF Deref(source_struct) # NULL
      THEN [c3 EXCEPT !.buffer = svn_stringbuf_appendbytes(
                        @, PeekBytes(source_struct, struct_size), c.pool.append)]
      ELSE c3

svn_temp_serializer__push(c, source_struct, struct_size) ==
  LET c1 == IF Deref(source_struct) # NULL THEN align_buffer_end(c) ELSE c
      c2 == store_current_end_pointer(c1, source_struct)
      c3 == [c2 EXCEPT !.source = Append(@, NewEntry(c2, source_struct))]
  IN  IF c2.abort THEN c2
      ELSE IF Deref(source_struct) # NULL
      THEN [c3 EXCEPT !.buffer = svn_stringbuf_appendbytes(
                        @, PeekBytes(Deref(source_struct), struct_size), c.pool.append)]
      ELSE c3

\* pop as it would be if it dropped every entry, back to the empty stack
svn_temp_serializer__pop_all(c) ==
  IF c.source = <<>> THEN [c EXCEPT !.abort = TRUE]
  ELSE [c EXCEPT !.source = <<>>]

\* pop as it would be without its assert
svn_temp_serializer__pop_unchecked(c) ==
  IF c.source = <<>>
  THEN c
  ELSE [c EXCEPT !.source = SubSeq(@, 1, Len(@) - 1)]

svn_temp_serializer__pop(c) ==
  IF c.source = <<>>
  THEN [c EXCEPT !.abort = TRUE]
  ELSE [c EXCEPT !.source = SubSeq(@, 1, Len(@) - 1)]

\* add_string as it would be if it started the string at an aligned offset,
\* as push does for a structure
svn_temp_serializer__add_string_aligned(c, s) ==
  LET c0 == IF Deref(s) # NULL THEN align_buffer_end(c) ELSE c
      c1 == store_current_end_pointer(c0, s)
  IN  IF c1.abort THEN c1
      ELSE IF Deref(s) # NULL
      THEN [c1 EXCEPT !.buffer = svn_stringbuf_appendbytes(
                        @, PeekBytes(Deref(s), strlen(Deref(s)) + 1), c.pool.append)]
      ELSE c1

svn_temp_serializer__add_string(c, s) ==
  LET c1 == store_current_end_pointer(c, s)
  IN  IF c1.abort THEN c1
      ELSE IF Deref(s) # NULL
      THEN [c1 EXCEPT !.buffer = svn_stringbuf_appendbytes(
                        @, PeekBytes(Deref(s), strlen(Deref(s)) + 1), c.pool.append)]
      ELSE c1

\* set_null as it would be with the slot located from the blob's start
\* (the structure's target_offset left out of the write)
svn_temp_serializer__set_null_in_struct(c, ptr) ==
  IF c.source = <<>>
  THEN [c EXCEPT !.abort = TRUE]
  ELSE LET offset == PtrOffset(c, ptr)
       IN  IF ~WithinData(c, offset)
           THEN [c EXCEPT !.abort = TRUE]
           ELSE [c EXCEPT !.buffer.data =
                   WriteBytes(@, PtrOffsetInStruct(c, ptr), ToBytes(0))]

svn_temp_serializer__set_null(c, ptr) ==
  IF c.source = <<>>
  THEN [c EXCEPT !.abort = TRUE]
  ELSE LET offset == PtrOffset(c, ptr)
       IN  IF ~WithinData(c, offset)
           THEN [c EXCEPT !.abort = TRUE]
           ELSE [c EXCEPT !.buffer.data = WriteBytes(@, offset, ToBytes(0))]

\* get as it would be if it finished the buffer off by padding its end
svn_temp_serializer__get_padding(c) ==
  [context |-> align_buffer_end(c), result |-> align_buffer_end(c).buffer]

\* the context svn_temp_serializer__get leaves and the buffer it returns
svn_temp_serializer__get(c) == [context |-> c, result |-> c.buffer]

\* svn_temp_deserializer__ptr: buffer is the base address and slot the
\* content of *ptr, both as PtrSize bytes
svn_temp_deserializer__ptr(buffer_, slot) ==
  IF IsZero(slot) THEN ToBytes(NULL) ELSE AddBytes(buffer_, slot)

\* ptr_read as it would be if reading a slot consumed it (load and clear)
ptr_read_clearing(m, ptr) ==
  [mem |-> [m EXCEPT ![ptr] = ToBytes(NULL)], val |-> m[ptr]]

\* (apr_size_t)*ptr in svn_temp_deserializer__ptr: a load through a pointer
\* to const; the memory it leaves and the value loaded
ptr_read(m, ptr) == [mem |-> m, val |-> m[ptr]]

\* ResolveValue as it would be if the offset were counted from address 0
ResolveValueAbsolute(buffer_, slot) == slot

\* (const char*)buffer + (apr_size_t)*ptr: what resolve stores for a slot
\* that is not 0
ResolveValue(buffer_, slot) == AddBytes(buffer_, slot)

\* ResolveCheck as it is in a build without asserts
ResolveCheckOff(buffer_, value) == TRUE

\* assert(*ptr > buffer)
ResolveCheck(buffer_, value) == GreaterBytes(value, buffer_)

\* svn_temp_deserializer__resolve run by itself on a slot: the bytes it
\* leaves in the slot, and whether its assert failed
svn_temp_deserializer__resolve(buffer_, slot) ==
  IF ~IsZero(slot)
  THEN LET value == ResolveValue(buffer_, slot)
       IN  [slot |-> value, abort |-> ~ResolveCheck(buffer_, value)]
  ELSE [slot |-> ToBytes(NULL), abort |-> FALSE]

(***************************************************************************)
(* revision_status.c.  A node is what svn_wc__db_read_info reports for a   *)
(* path: revision, original_rev, text_mod, props_mod, url.                 *)
(***************************************************************************)

\* the result as svn_wc_revision_status sets it before the walk, and the
\* baton around it
NilBaton ==
  [result |-> [min_rev |-> SVN_INVALID_REVNUM, max_rev |-> SVN_INVALID_REVNUM,
               modified |-> FALSE],
   wc_url |-> NULL]

\* the revision analyze_status counts a node with: its own, or that of the
\* node it was copied from
Revision(node) ==
  IF node.revision = SVN_INVALID_REVNUM THEN node.original_rev
  ELSE node.revision

\* analyze_status(path, baton): the baton it leaves; at_wc_path says
\* whether path is the baton's wc_path
analyze_status(baton, node, at_wc_path) ==
  LET revision == Revision(node)
      r == baton.result
  IN  [result |->
         [modified |-> r.modified \/ node.text_mod \/ node.props_mod,
          min_rev |-> IF r.min_rev = SVN_INVALID_REVNUM \/ revision < r.min_rev
                      THEN revision ELSE r.min_rev,
          max_rev |-> IF r.max_rev = SVN_INVALID_REVNUM \/ revision > r.max_rev
                      THEN revision ELSE r.max_rev],
       wc_url |-> IF baton.wc_url = NULL /\ at_wc_path
                  THEN node.url ELSE baton.wc_url]

(***************************************************************************)
(* History kept beside the program state, for stating the properties       *)
(***************************************************************************)

NoEntry == [source_struct |-> NULL, target_offset |-> 0]

\* what a function of return type void returns
Void == [data |-> <<>>, len |-> 0]

\* the record of a call: op, its arguments (field, size), what it found (the
\* stack depth, the entry on top, the struct_size that entry was pushed
\* with, the buffer length), whether it returned (ok), the slot it wrote
\* (its offset, -1 when it wrote none, and the bytes stored there) and the
\* value it returned
Call(op, field, size, c, c2, slot, val, ret) ==
  [op |-> op, field |-> field, size |-> size,
   depth |-> Len(c.source),
   top |-> IF c.source = <<>> THEN NoEntry ELSE Top(c),
   topsize |-> IF c.source = <<>> THEN 0 ELSE sizes[Len(sizes)],
   prelen |-> c.buffer.len,
   ok |-> ~c2.abort, slot |-> slot, val |-> val, ret |-> ret]

\* does the pointer field at address f lie inside the structure on top of
\* the stack, [source_struct, source_struct + struct_size)?
InsideTop(c, f) ==
  /\ c.source # <<>>
  /\ Top(c).source_struct # NULL
  /\ f >= Top(c).source_struct
  /\ f + PtrSize <= Top(c).source_struct + sizes[Len(sizes)]

\* a write of bytes [a, b) of the block ends the life of the slots it touches
Kill(ps, a, b) ==
  {IF p.slot < b /\ a < p.slot + PtrSize THEN [p EXCEPT !.live = FALSE] ELSE p
     : p \in ps}

\* the history after a slot write at offset slot, made for field f against
\* context c; start is the buffer offset at which the pointee's image will
\* begin (-1 for a null pointee)
Patched(ps, c, f, slot, start) ==
  Kill(ps, slot, slot + PtrSize)
    \cup {[slot |-> slot, enc |-> Top(c).target_offset, start |-> start,
           inside |-> InsideTop(c, f), live |-> TRUE]}

(***************************************************************************)
(* The calls a caller can make                                             *)
(***************************************************************************)

\* no blob is shared yet
NoBlob ==
  /\ base = <<>>
  /\ mem = <<>>
  /\ proc = <<>>
  /\ orig = <<>>
  /\ stores = <<>>
  /\ resolves = <<>>
  /\ accesses = 0

\* no serialization context exists yet
NoContext ==
  /\ pc = "start"
  /\ buffer = [data |-> [i \in 1..Cap |-> Indet], len |-> 0]
  /\ source = <<>>
  /\ calls = 0
  /\ sizes = <<>>
  /\ last = [op |-> "none", field |-> NULL, size |-> 0, depth |-> 0,
             top |-> NoEntry, topsize |-> 0, prelen |-> 0, ok |-> TRUE,
             slot |-> -1, val |-> <<>>, ret |-> Void]
  /\ patches = {}
  /\ images = {}
  /\ counts = [root |-> 0, pushes |-> 0, pops |-> 0]

\* no status walk is under way
NoWalk ==
  /\ walk = "none"
  /\ wc = <<>>
  /\ pending = {}
  /\ sb = <<>>
  /\ order = <<>>

Init == NoContext /\ NoBlob /\ NoWalk

Begin ==
  /\ pc = "start"
  /\ \E root \in {NULL, AddrParent} : \E struct_size \in StructSizes(root) :
       LET c == svn_temp_serializer__init(root, struct_size)
       IN  /\ pc' = "run"
           /\ calls' = calls + 1
           /\ buffer' = c.buffer
           /\ source' = c.source
           /\ sizes' = IF root = NULL THEN <<>> ELSE <<struct_size>>
           /\ last' = Call("init", root, struct_size, Context, c, -1, <<>>, Void)
           /\ images' = IF root = NULL THEN {}
                        ELSE {[src |-> root, off |-> 0, size |-> struct_size]}
           /\ patches' = {}
           /\ counts' = [root |-> IF root = NULL THEN 0 ELSE 1,
                         pushes |-> 0, pops |-> 0]
           /\ UNCHANGED <<accessVars, walkVars>>

Push ==
  /\ pc = "run"
  /\ calls < MaxCalls
  /\ calls' = calls + 1
  /\ Len(source) < MaxDepth
  /\ \E f \in StructFields : \E struct_size \in StructSizes(Deref(f)) :
     \E pool \in Pools :
       LET ctx == [Context EXCEPT !.pool = pool]
           c  == svn_temp_serializer__push(ctx, f, struct_size)
           \* the context when the slot is written, and right after
           c1 == IF Deref(f) # NULL THEN align_buffer_end(ctx) ELSE ctx
           c2 == store_current_end_pointer(c1, f)
           wrote == source # <<>> /\ ~c.abort
           slot == IF wrote THEN PtrOffset(c1, f) ELSE -1
           start == IF Deref(f) = NULL THEN -1 ELSE c1.buffer.len
       IN  /\ c.buffer.len <= MaxBufLen
           /\ pc' = IF c.abort THEN "abort" ELSE "run"
           /\ buffer' = c.buffer
           /\ source' = c.source
           /\ sizes' = IF c.abort THEN sizes
                       ELSE Append(sizes, IF Deref(f) = NULL THEN 0 ELSE struct_size)
           /\ last' = Call("push", f, struct_size, Context, c, slot,
                           IF wrote THEN ReadSlot(c2.buffer.data, slot)
                           ELSE <<>>, Void)
           /\ patches' = IF wrote THEN Patched(patches, c1, f, slot, start)
                         ELSE patches
           /\ images' = IF c.abort \/ Deref(f) = NULL THEN images
                        ELSE images \cup {[src |-> Deref(f), off |-> c1.buffer.len,
                                           size |-> struct_size]}
           /\ counts' = IF c.abort THEN counts
                        ELSE [counts EXCEPT !.pushes = @ + 1]
           /\ UNCHANGED <<accessVars, walkVars>>

Pop ==
  /\ pc = "run"
  /\ calls < MaxCalls
  /\ calls' = calls + 1
  /\ LET c == svn_temp_serializer__pop(Context)
     IN  /\ pc' = IF c.abort THEN "abort" ELSE "run"
         /\ buffer' = c.buffer
         /\ source' = c.source
         /\ sizes' = IF c.abort THEN sizes ELSE SubSeq(sizes, 1, Len(sizes) - 1)
         /\ last' = Call("pop", NULL, 0, Context, c, -1, <<>>, Void)
         /\ counts' = IF c.abort THEN counts ELSE [counts EXCEPT !.pops = @ + 1]
         /\ UNCHANGED <<patches, images, accessVars, walkVars>>

AddString ==
  /\ pc = "run"
  /\ calls < MaxCalls
  /\ calls' = calls + 1
  /\ \E s \in StringFields : \E pool \in Pools :
       LET ctx == [Context EXCEPT !.pool = pool]
           c == svn_temp_serializer__add_string(ctx, s)
           \* the context right after the slot write
           c2 == store_current_end_pointer(ctx, s)
           wrote == source # <<>> /\ ~c.abort
           slot == IF wrote THEN PtrOffset(Context, s) ELSE -1
           start == IF Deref(s) = NULL THEN -1 ELSE buffer.len
       IN  /\ c.buffer.len <= MaxBufLen
           /\ pc' = IF c.abort THEN "abort" ELSE "run"
           /\ buffer' = c.buffer
           /\ source' = c.source
           /\ UNCHANGED <<sizes, images, counts, accessVars, walkVars>>
           /\ last' = Call("add_string", s, 0, Context, c, slot,
                           IF wrote THEN ReadSlot(c2.buffer.data, slot)
                           ELSE <<>>, Void)
           /\ patches' = Kill(IF wrote THEN Patched(patches, Context, s, slot, start)
                              ELSE patches,
                              buffer.len, c.buffer.len)

SetNull ==
  /\ pc = "run"
  /\ calls < MaxCalls
  /\ calls' = calls + 1
  /\ \E ptr \in AllFields :
       LET c == svn_temp_serializer__set_null(Context, ptr)
           wrote == ~c.abort
           slot == IF wrote THEN PtrOffset(Context, ptr) ELSE -1
       IN  /\ pc' = IF c.abort THEN "abort" ELSE "run"
           /\ buffer' = c.buffer
           /\ source' = c.source
           /\ UNCHANGED <<sizes, images, counts, accessVars, walkVars>>
           /\ last' = Call("set_null", ptr, 0, Context, c, slot,
                           IF wrote THEN ReadSlot(c.buffer.data, slot)
                           ELSE <<>>, Void)
           /\ patches' = IF wrote THEN Patched(patches, Context, ptr, slot, -1)
                         ELSE patches

Finish ==
  /\ pc = "run"
  /\ calls < MaxCalls
  /\ calls' = calls + 1
  /\ LET r == svn_temp_serializer__get(Context)
     IN  /\ pc' = IF r.context.abort THEN "abort" ELSE "run"
         /\ buffer' = r.context.buffer
         /\ source' = r.context.source
         /\ last' = Call("get", NULL, 0, Context, r.context, -1, <<>>, r.result)
         /\ UNCHANGED <<sizes, patches, images, counts, accessVars, walkVars>>

Next == Begin \/ Push \/ Pop \/ AddString \/ SetNull \/ Finish

Spec == Init /\ [][Next]_vars

(***************************************************************************)
(* The accessors run by several processes on one shared blob.  A call is   *)
(* a sequence of steps, one per access to the slot; an aligned load or     *)
(* store of pointer width is one access.  Where the source names *ptr      *)
(* twice, a build may load it twice or keep the first load in a register:  *)
(* both are modelled.                                                      *)
(***************************************************************************)

\* the processes sharing the blob
Procs == {"p", "q", "r"}

\* the pointer slots of the blob the processes access
Slots == {1, 2}

\* the addresses the blob is placed at: a low one, and one so high that
\* adding a large slot value passes the end of the address space
BlobBases == {ToBytes(4096), <<0, 16, 0, 0, 0, 0, 0, 240>>}

\* what a slot may hold: 0 (a null pointer), the offset 32, and 2^60 (no
\* offset the serializer wrote)
SlotValues == {ToBytes(NULL), ToBytes(32), <<0, 0, 0, 0, 0, 0, 0, 16>>}

Idle == [kind |-> "none", slot |-> 0, at |-> "idle", tmp |-> <<>>, ret |-> <<>>]

\* a blob placed at base, no call made on it yet
AccessInit ==
  /\ NoContext
  /\ base \in BlobBases
  /\ mem \in [Slots -> SlotValues]
  /\ orig = mem
  /\ proc = [p \in Procs |-> Idle]
  /\ stores = [s \in Slots |-> 0]
  /\ resolves = [s \in Slots |-> 0]
  /\ accesses = 0
  /\ NoWalk

\* a process calls svn_temp_deserializer__ptr(base, &slot)
CallPtr(p) ==
  /\ proc[p].at \in {"idle", "done"}
  /\ accesses < MaxAccesses
  /\ accesses' = accesses + 1
  /\ \E s \in Slots :
       proc' = [proc EXCEPT ![p] = [kind |-> "ptr", slot |-> s, at |-> "ptr_test",
                                   tmp |-> <<>>, ret |-> <<>>]]
  /\ UNCHANGED <<base, mem, orig, stores, resolves, serializerVars, walkVars>>

\* (apr_size_t)*ptr == 0 ? NULL : ...
PtrTest(p) ==
  /\ proc[p].at = "ptr_test"
  /\ LET r == ptr_read(mem, proc[p].slot)
     IN  /\ mem' = r.mem
         /\ proc' = [proc EXCEPT ![p] =
                       IF IsZero(r.val)
                       THEN [@ EXCEPT !.at = "done", !.tmp = r.val,
                                      !.ret = ToBytes(NULL)]
                       ELSE [@ EXCEPT !.at = "ptr_sum", !.tmp = r.val]]
  /\ UNCHANGED <<base, orig, stores, resolves, accesses, serializerVars, walkVars>>

\* ... : (const char*)buffer + (apr_size_t)*ptr
PtrSum(p) ==
  /\ proc[p].at = "ptr_sum"
  /\ \E again \in BOOLEAN :
       LET r == ptr_read(mem, proc[p].slot)
           v == IF again THEN r.val ELSE proc[p].tmp
       IN  /\ mem' = IF again THEN r.mem ELSE mem
           /\ proc' = [proc EXCEPT ![p] =
                         [@ EXCEPT !.at = "done", !.tmp = v,
                                   !.ret = AddBytes(base, v)]]
  /\ UNCHANGED <<base, orig, stores, resolves, accesses, serializerVars, walkVars>>

\* a process calls svn_temp_deserializer__resolve(base, &slot)
CallResolve(p) ==
  /\ proc[p].at \in {"idle", "done"}
  /\ accesses < MaxAccesses
  /\ accesses' = accesses + 1
  /\ \E s \in Slots :
       /\ proc' = [proc EXCEPT ![p] = [kind |-> "resolve", slot |-> s,
                                      at |-> "resolve_test",
                                      tmp |-> <<>>, ret |-> <<>>]]
       /\ resolves' = [resolves EXCEPT ![s] = @ + 1]
  /\ UNCHANGED <<base, mem, orig, stores, serializerVars, walkVars>>

\* if ((apr_size_t)*ptr)
ResolveTest(p) ==
  /\ proc[p].at = "resolve_test"
  /\ LET v == mem[proc[p].slot]
     IN  proc' = [proc EXCEPT ![p] =
                   [@ EXCEPT !.at = IF IsZero(v) THEN "resolve_null"
                                    ELSE "resolve_load",
                             !.tmp = v]]
  /\ UNCHANGED <<base, mem, orig, stores, resolves, accesses, serializerVars, walkVars>>

\* the (apr_size_t)*ptr on the right of the assignment
ResolveLoad(p) ==
  /\ proc[p].at = "resolve_load"
  /\ \E again \in BOOLEAN :
       proc' = [proc EXCEPT ![p] =
                 [@ EXCEPT !.at = "resolve_store",
                           !.tmp = IF again THEN mem[proc[p].slot] ELSE @]]
  /\ UNCHANGED <<base, mem, orig, stores, resolves, accesses, serializerVars, walkVars>>

\* (*(const char **)ptr) = (const char*)buffer + ...
ResolveStore(p) ==
  /\ proc[p].at = "resolve_store"
  /\ LET s == proc[p].slot
         value == ResolveValue(base, proc[p].tmp)
     IN  /\ mem' = [mem EXCEPT ![s] = value]
         /\ stores' = [stores EXCEPT ![s] = @ + 1]
         /\ proc' = [proc EXCEPT ![p] =
                       [@ EXCEPT !.at = "resolve_check", !.tmp = value]]
  /\ UNCHANGED <<base, orig, resolves, accesses, serializerVars, walkVars>>

\* assert(*ptr > buffer)
ResolveAssert(p) ==
  /\ proc[p].at = "resolve_check"
  /\ \E again \in BOOLEAN :
       LET v == IF again THEN mem[proc[p].slot] ELSE proc[p].tmp
       IN  proc' = [proc EXCEPT ![p] =
                     [@ EXCEPT !.at = IF ResolveCheck(base, v) THEN "done"
                                      ELSE "abort",
                               !.tmp = v]]
  /\ UNCHANGED <<base, mem, orig, stores, resolves, accesses, serializerVars, walkVars>>

\* *ptr = NULL.  The slot was just read as 0 and a null pointer is all bits
\* 0: a build may make the store (stored) or leave it out
ResolveNull(p) ==
  /\ proc[p].at = "resolve_null"
  /\ \E stored \in BOOLEAN :
       /\ mem' = IF stored THEN [mem EXCEPT ![proc[p].slot] = ToBytes(NULL)]
                 ELSE mem
       /\ stores' = IF stored THEN [stores EXCEPT ![proc[p].slot] = @ + 1]
                    ELSE stores
  /\ proc' = [proc EXCEPT ![p] = [@ EXCEPT !.at = "done", !.tmp = ToBytes(NULL)]]
  /\ UNCHANGED <<base, orig, resolves, accesses, serializerVars, walkVars>>

AccessNext ==
  \E p \in Procs :
    \/ CallPtr(p) \/ PtrTest(p) \/ PtrSum(p)
    \/ CallResolve(p) \/ ResolveTest(p) \/ ResolveLoad(p)
    \/ ResolveStore(p) \/ ResolveAssert(p) \/ ResolveNull(p)

AccessSpec == AccessInit /\ [][AccessNext]_vars

(***************************************************************************)
(* The status walk: svn_wc_revision_status sets the result to nil and has  *)
(* the walker call analyze_status once for each node of the working copy.  *)
(* The walker is not part of revision_status.c: the order of its calls is  *)
(* left open.                                                              *)
(***************************************************************************)

\* the nodes a working copy is made of: one at r3, one at r5 with its text
\* modified, one added, one copied from r4 with its properties modified
NodeKinds ==
  {[revision |-> 3, original_rev |-> SVN_INVALID_REVNUM,
    text_mod |-> FALSE, props_mod |-> FALSE],
   [revision |-> 5, original_rev |-> SVN_INVALID_REVNUM,
    text_mod |-> TRUE, props_mod |-> FALSE],
   [revision |-> SVN_INVALID_REVNUM, original_rev |-> SVN_INVALID_REVNUM,
    text_mod |-> FALSE, props_mod |-> FALSE],
   [revision |-> SVN_INVALID_REVNUM, original_rev |-> 4,
    text_mod |-> FALSE, props_mod |-> TRUE]}

\* the working copies: 1 to MaxNodes nodes, node i at the URL i
WorkingCopies ==
  UNION {{[i \in 1..n |-> [revision |-> k[i].revision,
                           original_rev |-> k[i].original_rev,
                           text_mod |-> k[i].text_mod,
                           props_mod |-> k[i].props_mod, url |-> i]]
            : k \in [1..n -> NodeKinds]} : n \in 1..MaxNodes}

\* a working copy, before svn_wc_revision_status is called on it
WalkInit ==
  /\ NoContext
  /\ NoBlob
  /\ walk = "none"
  /\ wc \in WorkingCopies
  /\ pending = {}
  /\ sb = <<>>
  /\ order = <<>>

\* svn_wc_revision_status up to the call of the walker
StartWalk ==
  /\ walk = "none"
  /\ walk' = "walking"
  /\ sb' = NilBaton
  /\ pending' = DOMAIN wc
  /\ UNCHANGED <<wc, order, serializerVars, accessVars>>

\* the walker calls analyze_status for one more node
Visit ==
  /\ walk = "walking"
  /\ \E i \in pending :
       /\ sb' = analyze_status(sb, wc[i], i = 1)
       /\ pending' = pending \ {i}
       /\ order' = Append(order, i)
  /\ UNCHANGED <<walk, wc, serializerVars, accessVars>>

WalkNext == StartWalk \/ Visit

WalkSpec == WalkInit /\ [][WalkNext]_vars

(***************************************************************************)
(* Properties                                                              *)
(***************************************************************************)

\* the base addresses a finished blob is placed at
Bases == {4096, 65536 + 24, 16777216 + 8}

\* the calls that patch a slot with the offset of what they append
Patching == {"push", "add_string"}

\* the address of the field the last call was given, relative to the
\* source_struct of the structure that was on top of the stack
LastRel == last.field - last.top.source_struct

\* the buffer length when the last call checked its slot: push pads the
\* buffer before it patches the slot of a non-null child
LastCheckLen ==
  IF last.op = "push" /\ Deref(last.field) # NULL
  THEN APR_ALIGN_DEFAULT(last.prelen)
  ELSE last.prelen

\* the field the last call was given starts inside the structure that was
\* on top of the stack, [source_struct, source_struct + struct_size)
LastFieldInTop ==
  /\ last.depth > 0
  /\ last.top.source_struct # NULL
  /\ LastRel >= 0
  /\ LastRel < last.topsize

\* C1: a slot patched by Push or AddString for a non-null pointee, through a
\* field inside the structure then on top of the stack, holds the offset of
\* the pointee's image from the start of that structure's image (not from
\* the start of the blob), so that wherever the blob is placed the read-only
\* accessor, given the enclosing image's address, returns the pointee's
\* address; this as long as no later write touched the slot.
RelativeOffsetRoundTrip ==
  \A p \in patches :
    (p.live /\ p.inside /\ p.start # -1) =>
      /\ ReadSlot(buffer.data, p.slot) = ToBytes(p.start - p.enc)
      /\ \A B \in Bases :
           svn_temp_deserializer__ptr(ToBytes(B + p.enc),
                                      ReadSlot(buffer.data, p.slot))
             = ToBytes(B + p.start)

\* C1's case: a blob with a live offset at the root level and another one
\* level down, in a structure that does not start the blob
NestedOffsetsPatched ==
  /\ pc = "run"
  /\ \E p, q \in patches :
       /\ p.live /\ p.inside /\ p.start # -1 /\ p.enc = 0
       /\ q.live /\ q.inside /\ q.start # -1 /\ q.enc > 0

\* C2 as stated: whenever Push or AddString is given a non-null pointee and
\* the check of the slot passes, the value written into the slot is nonzero.
PatchedValueNonzero ==
  (last.op \in Patching /\ last.ok /\ last.slot # -1
     /\ Deref(last.field) # NULL)
    => last.val # ToBytes(0)

\* C2 amended: ... the value written is nonzero provided the field's address
\* is not below the source_struct of the structure on top of the stack.
PatchedValueNonzeroFromTop ==
  (last.op \in Patching /\ last.ok /\ last.slot # -1
     /\ Deref(last.field) # NULL /\ LastRel >= 0)
    => last.val # ToBytes(0)

\* C2's case: a non-null pointee patched through a field of a structure that
\* is not the root, once strings were appended
NonRootSlotPatched ==
  /\ last.op \in Patching /\ last.ok /\ last.slot # -1
  /\ Deref(last.field) # NULL /\ LastRel >= 0
  /\ last.top.target_offset > 0
  /\ last.prelen % AlignDefault # 0

\* C3 as stated: Push, AddString or SetNull with a field address outside
\* [source_struct, source_struct + structSize) of the structure on top of the
\* stack always fails.
ForeignFieldFaults ==
  (last.op \in Patching \cup {"set_null"} /\ last.depth > 0
     /\ ~LastFieldInTop)
    => ~last.ok

\* C3 amended: with a non-empty stack, Push, AddString and SetNull fail
\* exactly when the computed slot offset, field - top.source_struct +
\* top.target_offset in apr_size_t, is not below the buffer length (taken
\* after Push's padding).
SlotCheckIsAgainstLength ==
  (last.op \in Patching \cup {"set_null"} /\ last.depth > 0)
    => (last.ok <=>
          /\ LastRel + last.top.target_offset >= 0
          /\ LastRel + last.top.target_offset < LastCheckLen)

\* C3's case: a field of the enclosing structure handed in while its child
\* is on top of the stack, and patched without a fault
ForeignFieldPatched ==
  /\ last.op \in Patching \cup {"set_null"} /\ last.depth > 1
  /\ last.top.source_struct # NULL
  /\ LastRel < 0
  /\ last.ok /\ last.slot # -1

\* C4 as stated: Push on an empty stack is a fatal precondition failure.
PushOnEmptyStackFaults ==
  (last.op = "push" /\ last.depth = 0) => (~last.ok /\ pc = "abort")

\* C4 amended: Push on an empty stack returns normally: it patches no slot,
\* and for a non-null structure pads the buffer, makes the structure the
\* only stack entry, at the padded length, and appends its struct_size bytes
\* (for a null one it pushes an entry at the current length and appends
\* nothing).
PushOnEmptyStackSetsRoot ==
  (last.op = "push" /\ last.depth = 0) =>
    /\ last.ok /\ pc = "run"
    /\ last.slot = -1
    /\ Len(source) = 1
    /\ source[1] = [source_struct |-> Deref(last.field),
                    target_offset |-> LastCheckLen]
    /\ buffer.len = LastCheckLen
                    + (IF Deref(last.field) = NULL THEN 0 ELSE last.size)
    /\ \A i \in 1..last.size :
         Deref(last.field) # NULL =>
           buffer.data[LastCheckLen + i] = Peek(Deref(last.field) + i - 1)

\* C4's case: a structure pushed onto the empty stack of a context begun
\* without a root, behind an unaligned string
PushedOnEmptyStack ==
  /\ last.op = "push" /\ last.depth = 0 /\ last.ok
  /\ Deref(last.field) # NULL /\ last.size > 0
  /\ last.prelen % AlignDefault # 0

\* C5: Pop and SetNull on an empty stack fail, whatever came before, and the
\* failing call changes neither the buffer nor the stack.
EmptyStackPopAndSetNullFault ==
  [][(last'.op \in {"pop", "set_null"} /\ source = <<>>)
       => (pc' = "abort" /\ ~last'.ok /\ buffer' = buffer /\ source' = source)
    ]_vars

\* C5's case: the pop that follows the pop of the last entry, after pushes
\* and pops
ExcessPopFaulted ==
  /\ last.op = "pop" /\ last.depth = 0
  /\ pc = "abort"
  /\ calls >= 4 /\ buffer.len > 0

\* C6: Push or AddString through a valid slot whose pointee is null writes 0
\* into the slot and nothing else: no padding, no appended byte, and the
\* read-only accessor returns null for the slot from every base.
NullPreserved ==
  [][(last'.op \in Patching /\ source # <<>> /\ last'.ok
        /\ Deref(last'.field) = NULL)
       => /\ last'.val = ToBytes(0)
          /\ buffer'.len = buffer.len
          /\ buffer'.data = WriteBytes(buffer.data, last'.slot, ToBytes(0))
          /\ \A B \in Bases :
               svn_temp_deserializer__ptr(
                   ToBytes(B + last'.top.target_offset),
                   ReadSlot(buffer'.data, last'.slot)) = ToBytes(NULL)
    ]_vars

\* C6's case: a null child pushed through a slot of a nested structure
\* while the buffer ends unaligned
NullChildPushedUnaligned ==
  /\ last.op = "push" /\ last.ok /\ last.depth > 1
  /\ Deref(last.field) = NULL
  /\ LastFieldInTop
  /\ last.prelen % AlignDefault # 0

\* C7: a SetNull that passes its checks stores 0 in the slot, whatever the
\* slot held and whatever the source field holds, and changes nothing else:
\* not the buffer length, not a byte outside the slot, not the stack.  A slot
\* of the top structure set to 0 (by SetNull, or by a patch for a null
\* pointee) reads as null from every base for as long as nothing rewrites it.
SetNullOnlyClearsSlot ==
  /\ [][(last'.op = "set_null" /\ last'.ok)
          => /\ last'.slot = (last'.field - Top(Context).source_struct)
                               + Top(Context).target_offset
             /\ buffer'.len = buffer.len
             /\ buffer'.data = WriteBytes(buffer.data, last'.slot, ToBytes(0))
             /\ source' = source
             /\ pc' = "run"
       ]_vars
  /\ [](\A p \in patches :
          (p.live /\ p.inside /\ p.start = -1) =>
            /\ ReadSlot(buffer.data, p.slot) = ToBytes(0)
            /\ \A B \in Bases :
                 svn_temp_deserializer__ptr(ToBytes(B + p.enc),
                                            ReadSlot(buffer.data, p.slot))
                   = ToBytes(NULL))

\* C7's case: SetNull on a slot of a nested structure whose source field is
\* not null and which held a patched offset
PatchedSlotSetNull ==
  /\ last.op = "set_null" /\ last.ok
  /\ LastFieldInTop /\ last.top.target_offset > 0
  /\ Deref(last.field) # NULL
  /\ \E p \in patches : ~p.live /\ p.slot = last.slot /\ p.start # -1

\* C8: every structure image starts at a multiple of the default alignment;
\* Push of a non-null structure puts the new entry at the smallest such
\* multiple that is not below the buffer length it found; AddString pads
\* nothing: the string and its terminator start at the length it found.
ImagesAligned ==
  /\ \A im \in images : im.off % AlignDefault = 0
  /\ (last.op = "push" /\ last.ok /\ Deref(last.field) # NULL) =>
       LET off == source[Len(source)].target_offset
       IN  /\ off % AlignDefault = 0
           /\ off >= last.prelen
           /\ off - last.prelen < AlignDefault
           /\ buffer.len = off + last.size
  /\ (last.op = "add_string" /\ last.ok /\ Deref(last.field) # NULL) =>
       LET n == strlen(Deref(last.field))
       IN  /\ buffer.len = last.prelen + n + 1
           /\ \A i \in 1..(n + 1) :
                buffer.data[last.prelen + i] = Peek(Deref(last.field) + i - 1)

\* C8's case: a structure pushed, below a parent, right after an unaligned
\* string
PushedAfterUnalignedString ==
  /\ last.op = "push" /\ last.ok /\ last.depth > 0
  /\ Deref(last.field) # NULL /\ last.size > 0
  /\ last.prelen % AlignDefault # 0

\* the buffer offsets that lie in a slot some call has written
InWrittenSlot(off) ==
  \E p \in patches : p.slot <= off /\ off < p.slot + PtrSize

\* C9: while every patched field was a pointer field of the structure on top
\* of the stack, each image in the buffer (the root's at offset 0, a child's
\* at its target_offset) equals the source structure byte for byte outside
\* the patched slots; and no call changes a byte of the serialized data
\* other than those of the one slot it patches.
ImagesVerbatim ==
  /\ []((\A p \in patches : p.inside) =>
          \A im \in images : \A i \in 0..(im.size - 1) :
            ~InWrittenSlot(im.off + i) =>
              buffer.data[im.off + i + 1] = Peek(im.src + i))
  /\ [][\A i \in 1..buffer.len :
          (last'.slot = -1 \/ i <= last'.slot \/ i > last'.slot + PtrSize)
            => buffer'.data[i] = buffer.data[i]
       ]_vars

\* C9's case: a root and a child image, each with a patched slot of its own,
\* every patch made through a field of the top structure
TwoImagesPatched ==
  /\ pc = "run"
  /\ \A p \in patches : p.inside
  /\ \E im \in images : im.off = 0 /\ im.size > 0
  /\ \E im \in images : im.off > 0 /\ im.size > 0
  /\ \E p, q \in patches : p.enc = 0 /\ q.enc > 0

\* C10: Finish returns in every state and changes nothing: the buffer it
\* returns is the buffer as accumulated, buffer and stack are as before, and
\* a second Finish right after returns the same length and bytes.
FinishChangesNothing ==
  [][last'.op = "get"
       => /\ pc' = "run" /\ last'.ok
          /\ buffer' = buffer
          /\ source' = source
          /\ last'.ret = buffer
          /\ (last.op = "get" => last'.ret = last.ret)
    ]_vars

\* C10's case: Finish called mid-traversal, with structures on the stack, on
\* a buffer that ends unaligned
FinishedMidTraversal ==
  /\ last.op = "get" /\ last.ok
  /\ source # <<>>
  /\ buffer.len % AlignDefault # 0
  /\ last.prelen = buffer.len

(***************************************************************************)
(* C11: pop touches no byte of the buffer and uncovers the entry beneath   *)
(* exactly as it was pushed; a push adds one entry above the ones there,   *)
(* so a push and its pop restore the stack; and the depth of the stack is  *)
(* always (1 if a root was given, else 0) + pushes - pops                  *)
(***************************************************************************)

\* C11: a pop on a non-empty stack returns, leaves the buffer as it was and
\* leaves exactly the entries beneath the old top, unchanged; a push that
\* returns leaves every entry that was there and adds one; the depth is
\* root + pushes - pops in every state
PopRestoresEnclosing ==
  /\ [][/\ (last'.op = "pop" /\ source # <<>>)
            => /\ last'.ok
               /\ buffer' = buffer
               /\ source' = SubSeq(source, 1, Len(source) - 1)
        /\ (last'.op = "push" /\ last'.ok)
            => /\ Len(source') = Len(source) + 1
               /\ SubSeq(source', 1, Len(source)) = source]_vars
  /\ [](Len(source) = counts.root + counts.pushes - counts.pops)

\* C11's case: two structures were pushed and popped under a root, and the
\* second pop has just uncovered the root entry
PoppedBackToRoot ==
  /\ last.op = "pop" /\ last.ok /\ last.depth = 2
  /\ counts = [root |-> 1, pushes |-> 2, pops |-> 2]
  /\ source = <<[source_struct |-> AddrParent, target_offset |-> 0]>>

(***************************************************************************)
(* C15: push never shares a structure already in the buffer                *)
(***************************************************************************)

\* the image a push step appends: its offset and its size
PushedOff == APR_ALIGN_DEFAULT(buffer.len)
PushedNonNull == last'.op = "push" /\ last'.ok /\ Deref(last'.field) # NULL

\* C15 as stated: the structure a push appends never gets the target offset
\* of an earlier image of the same structure, whatever the struct sizes
FreshOffsetAnySize ==
  [][PushedNonNull
       => \A i \in images : i.src = Deref(last'.field) => i.off # PushedOff]_vars

\* C15: every push of a non-null child that returns appends struct_size
\* bytes, the child's, at the aligned end of the buffer and makes that
\* offset the new entry's target_offset; the new image starts at or past the
\* end of every image appended before (of the same child or not), at a
\* different offset from every earlier image that is not empty, and the
\* buffer ends at least both sizes past the earlier image's start
NoDeduplication ==
  [][PushedNonNull
       => /\ buffer'.len = PushedOff + last'.size
          /\ source'[Len(source')].target_offset = PushedOff
          /\ [k \in 1..last'.size |-> buffer'.data[PushedOff + k]]
               = PeekBytes(Deref(last'.field), last'.size)
          /\ \A i \in images :
               /\ i.off + i.size <= PushedOff
               /\ i.size > 0 => i.off # PushedOff
               /\ buffer'.len >= i.off + i.size + last'.size]_vars

\* C15's case: the same Child was pushed through the field child and, after
\* a pop, through the field twin; the two slots point at two images
SameChildPushedTwice ==
  /\ last.op = "push" /\ last.ok /\ last.field = ParentTwin /\ last.depth = 1
  /\ Deref(ParentTwin) = Deref(ParentChild)
  /\ {[src |-> AddrChild, off |-> 32, size |-> 16],
      [src |-> AddrChild, off |-> 48, size |-> 16]} \subseteq images
  /\ \E p, q \in patches :
       /\ p.live /\ p.slot = ParentChild - AddrParent /\ p.start = 32
       /\ q.live /\ q.slot = ParentTwin - AddrParent /\ q.start = 48
  /\ buffer.len = 64

(***************************************************************************)
(* C16: the shape of the stack and the buffer                              *)
(***************************************************************************)

\* C16 as stated: once a root was given, whatever entry is at the bottom of
\* the stack has target_offset 0
BottomOffsetZero ==
  (counts.root = 1 /\ source # <<>>) => source[1].target_offset = 0

\* C16: init with a root leaves the one entry {root, 0} and a buffer of
\* struct_size bytes, without a root an empty stack and an empty buffer;
\* the bottom entry stays as it is for as long as the stack is not empty;
\* the buffer length never decreases; in every state the buffer is at least
\* as long as the top entry's target_offset, and target_offset never
\* decreases from an entry to the one above it
StackBufferInvariants ==
  /\ [][/\ last'.op = "init"
            => IF last'.field # NULL
               THEN /\ source' = <<[source_struct |-> last'.field,
                                    target_offset |-> 0]>>
                    /\ buffer'.len = last'.size
               ELSE source' = <<>> /\ buffer'.len = 0
        /\ (source # <<>> /\ source' # <<>>) => source'[1] = source[1]
        /\ buffer'.len >= buffer.len]_vars
  /\ [](/\ source # <<>> => buffer.len >= Top(Context).target_offset
        /\ \A i \in 1..(Len(source) - 1) :
             source[i].target_offset <= source[i + 1].target_offset)

\* C16's case: under the root, a Child with its string and a null child on
\* top of it: three entries at offsets 0, 32 and 51
ThreeEntriesStacked ==
  /\ counts.root = 1
  /\ Len(source) = 3
  /\ source[1] = [source_struct |-> AddrParent, target_offset |-> 0]
  /\ source[2] = [source_struct |-> AddrChild, target_offset |-> 32]
  /\ source[3] = [source_struct |-> NULL, target_offset |-> 51]
  /\ buffer.len = 51

(***************************************************************************)
(* C17: add_string appends the string and its terminator, nothing else     *)
(***************************************************************************)

\* the bytes of block d in [from, to)
Slice(d, from, to) == [i \in 1..(to - from) |-> d[from + i]]

\* C17: an add_string of a non-null string of length n that returns leaves
\* the stack as it was and the buffer n + 1 bytes longer, the new bytes being
\* the string and its terminator, placed at the previous length; on an empty
\* stack add_string returns, writes no slot and leaves the bytes already in
\* the buffer alone; after init without a root, one add_string leaves
\* exactly the string and its terminator
StringAppendedUnpadded ==
  /\ [][last'.op = "add_string"
          => /\ (last'.ok /\ Deref(last'.field) # NULL)
                => LET n == strlen(Deref(last'.field))
                   IN  /\ source' = source
                       /\ buffer'.len = buffer.len + n + 1
                       /\ Slice(buffer'.data, buffer.len, buffer'.len)
                            = PeekBytes(Deref(last'.field), n + 1)
             /\ source = <<>>
                => /\ last'.ok
                   /\ last'.slot = -1
                   /\ Slice(buffer'.data, 0, buffer.len)
                        = Slice(buffer.data, 0, buffer.len)]_vars
  /\ []((/\ calls = 2 /\ counts.root = 0
         /\ last.op = "add_string" /\ Deref(last.field) # NULL)
        => /\ buffer.len = strlen(Deref(last.field)) + 1
           /\ Slice(buffer.data, 0, buffer.len)
                = PeekBytes(Deref(last.field), buffer.len))

\* C17's case: a bare string serialized with no owning structure
BareStringSerialized ==
  /\ calls = 2 /\ counts.root = 0 /\ source = <<>>
  /\ last.op = "add_string" /\ last.ok /\ last.field = ParentName
  /\ buffer.len = 3
  /\ Slice(buffer.data, 0, 3) = <<97, 98, 0>>

(***************************************************************************)
(* C18: the entry of a null child                                          *)
(***************************************************************************)

NullOnTop == source # <<>> /\ Top(Context).source_struct = NULL

\* C18: a push of a null child that returns adds the entry {NULL, buffer
\* length} and appends nothing; while such an entry is on top, every push,
\* add_string and set_null fails its assert, with no slot written, every
\* byte of the serialized data as it was and the stack as it was (a push of
\* a non-null child has made room for the padding and padded the length by
\* then), and until then the buffer length is the entry's target_offset
NullChildEntryBlocks ==
  /\ [][/\ (last'.op = "push" /\ last'.ok /\ Deref(last'.field) = NULL)
            => /\ source' = Append(source, [source_struct |-> NULL,
                                            target_offset |-> buffer.len])
               /\ buffer'.len = buffer.len
        /\ (NullOnTop /\ last'.op \in {"push", "add_string", "set_null"})
            => /\ ~last'.ok
               /\ last'.slot = -1
               /\ \A i \in 1..buffer.len : buffer'.data[i] = buffer.data[i]
               /\ buffer'.len = IF last'.op = "push" /\ Deref(last'.field) # NULL
                                THEN APR_ALIGN_DEFAULT(buffer.len)
                                ELSE buffer.len
               /\ source' = source]_vars
  /\ []((NullOnTop /\ pc = "run") => buffer.len = Top(Context).target_offset)

\* C18's case: a string field of the Child is added while the entry of the
\* Child's null pointer is on top
AddStringUnderNullChild ==
  /\ last.op = "add_string" /\ ~last.ok
  /\ last.field = ChildName
  /\ last.top = [source_struct |-> NULL, target_offset |-> 48]
  /\ last.depth = 3

(***************************************************************************)
(* C19: where a slot write lands                                           *)
(***************************************************************************)

\* C19: every slot write made by push, add_string or set_null lies wholly
\* inside the serialized data: the slot's PtrSize bytes end at or before the
\* buffer length at the time of the write
SlotWriteInsideData ==
  last.slot # -1 => last.slot + PtrSize <= LastCheckLen

(***************************************************************************)
(* C12: svn_temp_deserializer__ptr on a blob shared by several readers     *)
(***************************************************************************)

\* no process has called svn_temp_deserializer__resolve on the blob
OnlyReaders == \A s \in Slots : resolves[s] = 0

\* C12: no step of svn_temp_deserializer__ptr changes a byte of the blob;
\* while svn_temp_deserializer__ptr is the only accessor called, however
\* the calls of the processes interleave and whichever slots they read,
\* the blob is as the serializer left it and each finished call has
\* returned what the function returns for that slot run by itself
ReadOnlyNeverWrites ==
  /\ [][\A p \in Procs :
          (proc[p].at \in {"ptr_test", "ptr_sum"} /\ proc'[p] # proc[p])
            => mem' = mem]_vars
  /\ [](OnlyReaders =>
          /\ mem = orig
          /\ \A p \in Procs :
               (proc[p].kind = "ptr" /\ proc[p].at = "done")
                 => proc[p].ret
                      = svn_temp_deserializer__ptr(base, orig[proc[p].slot]))

\* C12's case: three readers in their calls at once, two of them on the
\* same slot, the third finished with the address of its pointee
ThreeReadersOverlap ==
  /\ OnlyReaders
  /\ proc["p"].at = "ptr_sum" /\ proc["q"].at = "ptr_sum"
  /\ proc["p"].slot = proc["q"].slot
  /\ proc["r"].kind = "ptr" /\ proc["r"].at = "done"
  /\ proc["r"].slot # proc["p"].slot
  /\ orig[proc["r"].slot] = ToBytes(32)
  /\ proc["r"].ret = AddBytes(base, ToBytes(32))

(***************************************************************************)
(* C14: svn_temp_deserializer__resolve against svn_temp_deserializer__ptr  *)
(***************************************************************************)

\* process p has finished a svn_temp_deserializer__resolve on a slot that no
\* other call of resolve was made on: the slot held what the serializer
\* left when p read it
ResolvedAlone(p) ==
  /\ proc[p].kind = "resolve"
  /\ proc[p].at \in {"done", "abort"}
  /\ resolves[proc[p].slot] = 1

\* C14 as stated: for every base and slot value, resolve returns and leaves
\* in the slot what ptr returns for that base and slot value
ResolveAgreesNoFault ==
  \A p \in Procs :
    ResolvedAlone(p)
      => /\ proc[p].at = "done"
         /\ mem[proc[p].slot]
              = svn_temp_deserializer__ptr(base, orig[proc[p].slot])

\* C14: for every base and slot value, resolve leaves in the slot what ptr
\* returns for them, null for 0 and base + offset (modulo the pointer width)
\* otherwise; it returns when the slot is 0 or base + offset does not pass
\* the end of the address space, and fails its assert when it does
ResolveAgreesUnlessWrapped ==
  \A p \in Procs :
    ResolvedAlone(p)
      => LET slot == orig[proc[p].slot]
             r == svn_temp_deserializer__resolve(base, slot)
         IN  /\ mem[proc[p].slot] = r.slot
             /\ (proc[p].at = "abort") = r.abort
             /\ r.slot = svn_temp_deserializer__ptr(base, slot)
             /\ r.slot = IF IsZero(slot) THEN ToBytes(NULL)
                         ELSE AddBytes(base, slot)
             /\ r.abort = (~IsZero(slot) /\ Wraps(base, slot))

\* C14's case: a slot holding a large value resolved in a blob at the low
\* base, where the sum stays inside the address space
LargeOffsetResolved ==
  /\ ResolvedAlone("p") /\ proc["p"].at = "done"
  /\ base = ToBytes(4096)
  /\ orig[proc["p"].slot] = <<0, 0, 0, 0, 0, 0, 0, 16>>
  /\ mem[proc["p"].slot] = <<0, 16, 0, 0, 0, 0, 0, 16>>

(***************************************************************************)
(* C13: svn_temp_deserializer__resolve on a blob shared by several owners  *)
(***************************************************************************)

\* v + k * b in pointer arithmetic
RECURSIVE AddTimes(_, _, _)
AddTimes(v, b, k) == IF k = 0 THEN v ELSE AddBytes(b, AddTimes(v, b, k - 1))

\* C13: what a slot serialized non-null can hold once resolve is called on
\* it by several processes: the offset while no call has stored to it, the
\* pointee's address base + offset after the store of one call, and after
\* the stores of n calls base + offset with base added up to n - 1 more
\* times (a call that loaded the slot after another stored to it resolves
\* the resolved pointer again); a ptr call on the slot returns base + one of
\* these values
SharedResolveOutcomes ==
  \A s \in Slots :
    ~IsZero(orig[s])
      => /\ stores[s] = 0 => mem[s] = orig[s]
         /\ stores[s] = 1 => mem[s] = AddBytes(base, orig[s])
         /\ stores[s] > 1
              => \E k \in 1..stores[s] : mem[s] = AddTimes(orig[s], base, k)
         /\ \A p \in Procs :
              (proc[p].kind = "ptr" /\ proc[p].at = "done" /\ proc[p].slot = s)
                => \E k \in 0..stores[s] :
                     proc[p].ret = AddTimes(orig[s], base, k + 1)

\* C13's case: p and q resolve the same non-null slot in overlapping calls
\* (p has stored and not yet returned, q loaded what p stored), the slot
\* holds base + base + offset, and the reader r got something other than
\* the pointee's address base + offset from it
SlotResolvedTwice ==
  /\ proc["p"].kind = "resolve" /\ proc["p"].at = "resolve_check"
  /\ proc["q"].kind = "resolve" /\ proc["q"].at = "done"
  /\ proc["r"].kind = "ptr" /\ proc["r"].at = "done"
  /\ proc["p"].slot = proc["q"].slot /\ proc["r"].slot = proc["q"].slot
  /\ orig[proc["p"].slot] = ToBytes(32)
  /\ proc["p"].tmp = AddBytes(base, ToBytes(32))
  /\ mem[proc["p"].slot] = AddBytes(base, AddBytes(base, ToBytes(32)))
  /\ mem[proc["p"].slot] # AddBytes(base, ToBytes(32))
  /\ proc["r"].ret # AddBytes(base, ToBytes(32))

(***************************************************************************)
(* C20: the revision range and the order of the walk                       *)
(***************************************************************************)

\* the baton after analyze_status was called for the nodes of w in the order
\* o, the first n of them
RECURSIVE Walked(_, _, _)
Walked(w, o, n) ==
  IF n = 0 THEN NilBaton
  ELSE analyze_status(Walked(w, o, n - 1), w[o[n]], o[n] = 1)

\* the orders in which the nodes of w can be visited
Orders(w) ==
  {o \in [DOMAIN w -> DOMAIN w] : \A i, j \in DOMAIN w : o[i] = o[j] => i = j}

\* C20: once every node was visited, the result holds the min_rev and the
\* max_rev that every other order of visiting the same nodes leaves
RangeOrderIndependent ==
  (walk = "walking" /\ pending = {})
    => \A o \in Orders(wc) :
         LET other == Walked(wc, o, Len(wc)).result
         IN  /\ other.min_rev = sb.result.min_rev
             /\ other.max_rev = sb.result.max_rev

====
